---- MODULE Spec2Model ----
(***************************************************************************)
(* Atomic deployment + fund distribution of a Nexus account through        *)
(* Multicall3, as scripted three times in this repository:                 *)
(*   "viem"     src/unwallet-bond-credit/index.ts lines 1-612              *)
(*   "artifact" src/unwallet-bond-credit/index.ts lines 614-1179           *)
(*   "hardhat"  src/unnamed/part_001                                       *)
(* The scripts are modelled step by step (one action per awaited external  *)
(* operation); the contracts they call (factory, token, vaults, BondModule,*)
(* Multicall3) are not in the repository and are modelled from their       *)
(* interfaces and the specification.                                       *)
(***************************************************************************)
EXTENDS Integers, Sequences, FiniteSets, TLC

VARIABLES
    impl,       \* which of the three scripts the runs execute, or "mixed"
    clock,      \* Math.floor(Date.now() / 1000)
    chain,      \* the external ledger: [code, bal, vaultBal, allowance, usedNonces]
    ledger,     \* deployments.json: [exists, others, bondModule]
    run,        \* per run: its position and the locals of main()
    builder,    \* the batch builder run on its own: [pc, accountBalance, plan, amounts, executions]
    packer      \* the digest computation run on its own, on two inputs: [pc, a, b, ...]

vars == <<impl, clock, chain, ledger, run, builder, packer>>

(***************************************************************************)
(* Program constants                                                       *)
(***************************************************************************)
ALLOCATION_ZYFAI == 3000
ALLOCATION_GIZA == 3000
ALLOCATION_COD3X == 4000
TOTAL_PERCENTAGE == 10000

(***************************************************************************)
(* bigint.  Token amounts are JavaScript bigints (10_000_000_000n does not *)
(* fit a 32-bit integer).  An amount is kept as its sequence of limbs of   *)
(* radix Base, least significant limb first, with no zero top limb (zero   *)
(* is <<>>).  The operations are the schoolbook ones; nothing wraps, as    *)
(* nothing wraps in a bigint.                                              *)
(***************************************************************************)
Base == 10 * TOTAL_PERCENTAGE

RECURSIVE Trim(_)
Trim(a) ==
    IF a = <<>> THEN <<>>
    ELSE IF a[Len(a)] = 0 THEN Trim(SubSeq(a, 1, Len(a) - 1)) ELSE a

\* BigInt(n) of a number n >= 0
Big(n) == Trim(<<n % Base, n \div Base>>)

BigZero == <<>>

RECURSIVE AddLimbs(_, _, _)
AddLimbs(a, b, carry) ==
    IF a = <<>> /\ b = <<>> THEN (IF carry = 0 THEN <<>> ELSE <<carry>>)
    ELSE LET x == IF a = <<>> THEN 0 ELSE Head(a)
             y == IF b = <<>> THEN 0 ELSE Head(b)
             t == x + y + carry
         IN  <<t % Base>> \o AddLimbs(IF a = <<>> THEN <<>> ELSE Tail(a),
                                      IF b = <<>> THEN <<>> ELSE Tail(b),
                                      t \div Base)

BigAdd(a, b) == AddLimbs(a, b, 0)

BigLess(a, b) ==
    \/ Len(a) < Len(b)
    \/ /\ Len(a) = Len(b)
       /\ \E i \in 1..Len(a) : a[i] < b[i] /\ \A j \in (i + 1)..Len(a) : a[j] = b[j]

BigLeq(a, b) == a = b \/ BigLess(a, b)

RECURSIVE SubLimbs(_, _, _)
SubLimbs(a, b, borrow) ==
    IF a = <<>> THEN <<>>
    ELSE LET y == (IF b = <<>> THEN 0 ELSE Head(b)) + borrow
             under == Head(a) < y
         IN  <<(IF under THEN Head(a) + Base ELSE Head(a)) - y>>
                 \o SubLimbs(Tail(a), IF b = <<>> THEN <<>> ELSE Tail(b),
                             IF under THEN 1 ELSE 0)

\* a - b, for b <= a
BigSub(a, b) == Trim(SubLimbs(a, b, 0))

RECURSIVE MulLimbs(_, _, _)
MulLimbs(a, n, carry) ==
    IF a = <<>> THEN (IF carry = 0 THEN <<>>
                      ELSE <<carry % Base>> \o MulLimbs(<<>>, n, carry \div Base))
    ELSE LET p == Head(a) * n + carry
         IN  <<p % Base>> \o MulLimbs(Tail(a), n, p \div Base)

\* a * BigInt(n) for a number n <= TOTAL_PERCENTAGE: limb by limb, carrying
BigMul(a, n) == Trim(MulLimbs(a, n, 0))

\* long division by a number d <= TOTAL_PERCENTAGE, from the top limb down
RECURSIVE DivRem(_, _)
DivRem(a, d) ==
    IF a = <<>> THEN [q |-> <<>>, r |-> 0]
    ELSE LET upper == DivRem(Tail(a), d)
             cur == upper.r * Base + Head(a)
         IN  [q |-> <<cur \div d>> \o upper.q, r |-> cur % d]

\* a / BigInt(d): the remainder is dropped (bigint "/" truncates)
BigDiv(a, d) == Trim(DivRem(a, d).q)

\* a % BigInt(d)
BigMod(a, d) == DivRem(a, d).r

INITIAL_TOKEN_BALANCE == BigMul(Big(1000000), 10000)      \* 10_000_000_000n
ALLOWANCE_CAP == BigMul(Big(1000000), 10000)              \* 10_000_000_000n

(***************************************************************************)
(* Well-known contracts (DEPLOYED_ADDRESSES)                               *)
(***************************************************************************)
MockToken == "MockToken"
EscrowZyFAI == "EscrowZyFAI"
EscrowGiza == "EscrowGiza"
EscrowCod3x == "EscrowCod3x"
BiconomyMetaFactory == "BiconomyMetaFactory"
NexusAccountFactory == "NexusAccountFactory"
NexusBootstrap == "NexusBootstrap"
BondModule == "BondModule"
MULTICALL3 == "Multicall3"

Vaults == {EscrowZyFAI, EscrowGiza, EscrowCod3x}

(***************************************************************************)
(* BatchBuilder: the amounts and the execution batch                       *)
(***************************************************************************)
\* a plausible slip: divide before multiplying
AmountDivideFirst(accountBalance, allocation) ==
    BigMul(BigDiv(accountBalance, TOTAL_PERCENTAGE), allocation)

\* a plausible slip: round to nearest instead of truncating
AmountRounded(accountBalance, allocation) ==
    BigDiv(BigAdd(BigMul(accountBalance, allocation), Big(TOTAL_PERCENTAGE \div 2)),
           TOTAL_PERCENTAGE)

\* a plausible slip: the remainder of the whole balance handed to every entry
AmountPlusRemainder(accountBalance, allocation) ==
    BigAdd(BigDiv(BigMul(accountBalance, allocation), TOTAL_PERCENTAGE),
           Big(BigMod(accountBalance, 10)))

\* (accountBalance * BigInt(ALLOCATION_X)) / BigInt(TOTAL_PERCENTAGE)
Amount(accountBalance, allocation) ==
    BigDiv(BigMul(accountBalance, allocation), TOTAL_PERCENTAGE)

\* approveSelector + encodeAbiParameters([address, uint256], [spender, amount])
EncodeApprove(spender, amount) == <<"approve(address,uint256)", spender, amount>>

\* depositSelector + encodeAbiParameters([uint256], [amount])
EncodeDeposit(amount) == <<"deposit(uint256)", amount>>

\* a plausible slip: all approvals first, then all deposits
executionsApprovalsFirst(amountZyFAI, amountGiza, amountCod3x) ==
    << [target |-> MockToken,   value |-> 0, callData |-> EncodeApprove(EscrowZyFAI, amountZyFAI)],
       [target |-> MockToken,   value |-> 0, callData |-> EncodeApprove(EscrowGiza, amountGiza)],
       [target |-> MockToken,   value |-> 0, callData |-> EncodeApprove(EscrowCod3x, amountCod3x)],
       [target |-> EscrowZyFAI, value |-> 0, callData |-> EncodeDeposit(amountZyFAI)],
       [target |-> EscrowGiza,  value |-> 0, callData |-> EncodeDeposit(amountGiza)],
       [target |-> EscrowCod3x, value |-> 0, callData |-> EncodeDeposit(amountCod3x)] >>

\* a plausible slip: two deposits carry each other's amount (copy and paste)
executionsDepositsSwapped(amountZyFAI, amountGiza, amountCod3x) ==
    << [target |-> MockToken,   value |-> 0, callData |-> EncodeApprove(EscrowZyFAI, amountZyFAI)],
       [target |-> EscrowZyFAI, value |-> 0, callData |-> EncodeDeposit(amountCod3x)],
       [target |-> MockToken,   value |-> 0, callData |-> EncodeApprove(EscrowGiza, amountGiza)],
       [target |-> EscrowGiza,  value |-> 0, callData |-> EncodeDeposit(amountGiza)],
       [target |-> MockToken,   value |-> 0, callData |-> EncodeApprove(EscrowCod3x, amountCod3x)],
       [target |-> EscrowCod3x, value |-> 0, callData |-> EncodeDeposit(amountZyFAI)] >>

\* const executions = [ ... ]
executions(amountZyFAI, amountGiza, amountCod3x) ==
    << [target |-> MockToken,   value |-> 0, callData |-> EncodeApprove(EscrowZyFAI, amountZyFAI)],
       [target |-> EscrowZyFAI, value |-> 0, callData |-> EncodeDeposit(amountZyFAI)],
       [target |-> MockToken,   value |-> 0, callData |-> EncodeApprove(EscrowGiza, amountGiza)],
       [target |-> EscrowGiza,  value |-> 0, callData |-> EncodeDeposit(amountGiza)],
       [target |-> MockToken,   value |-> 0, callData |-> EncodeApprove(EscrowCod3x, amountCod3x)],
       [target |-> EscrowCod3x, value |-> 0, callData |-> EncodeDeposit(amountCod3x)] >>

\* the allocation plan of the scripts, in batch order
\* a plausible slip: shares that add up to more than the whole
PlanOverAllocated == <<ALLOCATION_ZYFAI, ALLOCATION_GIZA, ALLOCATION_COD3X + ALLOCATION_ZYFAI>>

Plan == <<ALLOCATION_ZYFAI, ALLOCATION_GIZA, ALLOCATION_COD3X>>
PlanVaults == <<EscrowZyFAI, EscrowGiza, EscrowCod3x>>

\* amountZyFAI, amountGiza, amountCod3x of a balance under a plan of three shares
Amounts(accountBalance, plan) ==
    << Amount(accountBalance, plan[1]),
       Amount(accountBalance, plan[2]),
       Amount(accountBalance, plan[3]) >>

(***************************************************************************)
(* Bounds of the model                                                     *)
(***************************************************************************)
MaxClock == 1       \* the clock shows seconds 0..MaxClock

\* two runs of a script, interleaved at their awaited operations
Runs == {1, 2}
Impls == {"viem", "artifact", "hardhat"}

\* both runs execute the same script, or ("mixed") the first one the hardhat script and
\* the second one the artifact script, which derive their salt from the same prefix
Setups == Impls \cup {"mixed"}

\* the script run r executes
ImplOf(r) == IF impl # "mixed" THEN impl ELSE IF r = 1 THEN "hardhat" ELSE "artifact"

(***************************************************************************)
(* Address pre-computation                                                 *)
(***************************************************************************)
Deployer == "deployer"          \* privateKeyToAccount(PRIVATE_KEY).address, also the TEE signer
ChainId == 84532                \* baseSepolia.id

\* keccak256 of a pre-image: collision-free, so kept as the tagged pre-image
Keccak256(preimage) == <<"keccak256", preimage>>

\* `nexus-bondmodule-viem-${timestamp}` / `nexus-bondmodule-hardhat-${timestamp}`
SaltInput(i, timestamp) ==
    <<IF i = "viem" THEN "nexus-bondmodule-viem-" ELSE "nexus-bondmodule-hardhat-", timestamp>>

Salt(i, timestamp) == Keccak256(SaltInput(i, timestamp))

\* encode(["address", "bytes"], [NexusBootstrap, initCall]); the BondModule is installed
\* as executor for MockToken with ALLOWANCE_CAP
InitData(owner) ==
    <<NexusBootstrap, "initNexusWithDefaultValidatorAndOtherModules", owner,
      BondModule, MockToken, ALLOWANCE_CAP>>

\* NexusAccountFactory.computeAccountAddress(initData, salt): a pure function of
\* (factory, initData, salt), one address per pair
ComputeAccountAddress(initData, salt) ==
    [factory |-> NexusAccountFactory, initData |-> initData, salt |-> salt]

Addrs == {ComputeAccountAddress(InitData(Deployer), Salt(i, t)) : i \in Impls, t \in 0..MaxClock}

(***************************************************************************)
(* AttestationSigner                                                       *)
(***************************************************************************)
\* keccak256(encodePacked([uint256, address, address, uint256, uint256, bytes], [...]))
AttestationHash(chainId, account, token, allowedPercentageBps, nonce, executionBatch) ==
    Keccak256(<<chainId, account, token, allowedPercentageBps, nonce, executionBatch>>)

\* keccak256("\x19Ethereum Signed Message:\n32" || hash)
EthSignedHash(hash) == Keccak256(<<"\\x19Ethereum Signed Message:\\n32", hash>>)

\* an ECDSA signature by `signer` over the 32-byte `digest`
SignDigest(signer, digest) == [signer |-> signer, digest |-> digest]

\* walletClient.signMessage({ message: { raw } }): viem prefixes, hashes and signs
SignMessageRaw(signer, raw) == SignDigest(signer, EthSignedHash(raw))

\* ecrecover: the signer for the digest that was signed, some other address for any other
Recover(digest, signature) ==
    IF signature.digest = digest THEN signature.signer ELSE "unknown"

\* the signature each script produces for an attestation hash
Signature(i, signer, attestationHash) ==
    CASE i = "viem"     -> SignMessageRaw(signer, attestationHash)
      [] i = "artifact" -> SignMessageRaw(signer, EthSignedHash(attestationHash))
      [] i = "hardhat"  -> SignDigest(signer, EthSignedHash(attestationHash))

\* encodeAbiParameters([tuple(address target, uint256 value, bytes callData)[]], [executions])
EncodeBatch(execs) == <<"(address,uint256,bytes)[]", execs>>

DecodeBatch(executionBatch) == executionBatch[2]

(***************************************************************************)
(* The Multicall3 calls of the atomic submission                           *)
(***************************************************************************)
\* createAccountSelector + encode([initData, salt])
EncodeCreateAccount(initData, salt) == <<"createAccount(bytes,bytes32)", initData, salt>>

\* deployWithFactorySelector + encode([factory, factoryData])
EncodeDeployWithFactory(factory, factoryData) ==
    <<"deployWithFactory(address,bytes)", factory, factoryData>>

\* executeBatchSelector + encode([account, batch, token, bps, nonce, signature])
EncodeExecuteBatch(account, executionBatch, token, allowedPercentageBps, nonce, signature) ==
    <<"executeBatchWithAttestation(address,bytes,address,uint256,uint256,bytes)",
      account, executionBatch, token, allowedPercentageBps, nonce, signature>>

\* a plausible slip: the attested execution is allowed to fail
callsExecuteMayFail(encodedFactoryData, encodedBatchExecution) ==
    << [target |-> BiconomyMetaFactory, allowFailure |-> FALSE,
        callData |-> EncodeDeployWithFactory(NexusAccountFactory, encodedFactoryData)],
       [target |-> BondModule, allowFailure |-> TRUE, callData |-> encodedBatchExecution] >>

\* a plausible slip: Multicall3's permissive flag on both calls
callsBothMayFail(encodedFactoryData, encodedBatchExecution) ==
    << [target |-> BiconomyMetaFactory, allowFailure |-> TRUE,
        callData |-> EncodeDeployWithFactory(NexusAccountFactory, encodedFactoryData)],
       [target |-> BondModule, allowFailure |-> TRUE, callData |-> encodedBatchExecution] >>

\* a plausible slip: the two calls in the wrong order
callsExecuteFirst(encodedFactoryData, encodedBatchExecution) ==
    << [target |-> BondModule, allowFailure |-> FALSE, callData |-> encodedBatchExecution],
       [target |-> BiconomyMetaFactory, allowFailure |-> FALSE,
        callData |-> EncodeDeployWithFactory(NexusAccountFactory, encodedFactoryData)] >>

\* const calls = [ ... ]
calls(encodedFactoryData, encodedBatchExecution) ==
    << [target |-> BiconomyMetaFactory, allowFailure |-> FALSE,
        callData |-> EncodeDeployWithFactory(NexusAccountFactory, encodedFactoryData)],
       [target |-> BondModule, allowFailure |-> FALSE, callData |-> encodedBatchExecution] >>

(***************************************************************************)
(* The external contracts, from their interfaces and the specification.    *)
(* A chain state c is [code, bal, vaultBal, allowance, usedNonces]; a call *)
(* returns [ok, c]: whether it succeeded, and the state it leaves.         *)
(***************************************************************************)
ChainInit ==
    [code |-> {},
     bal |-> [a \in Addrs |-> BigZero],
     vaultBal |-> [v \in Vaults |-> BigZero],
     allowance |-> [a \in Addrs |-> [v \in Vaults |-> BigZero]],
     usedNonces |-> {}]

\* MockToken.mint(to, amount)
TokenMint(c, to, amount) == [c EXCEPT !.bal[to] = BigAdd(@, amount)]

\* MockToken.approve(spender, amount), called by owner
TokenApprove(c, owner, spender, amount) ==
    IF spender \in Vaults
    THEN [ok |-> TRUE, c |-> [c EXCEPT !.allowance[owner][spender] = amount]]
    ELSE [ok |-> FALSE, c |-> c]

\* Vault.deposit(amount), called by sender: the vault pulls the tokens it was approved for
VaultDeposit(c, vault, sender, amount) ==
    IF vault \in Vaults /\ BigLeq(amount, c.allowance[sender][vault])
                        /\ BigLeq(amount, c.bal[sender])
    THEN [ok |-> TRUE,
          c |-> [c EXCEPT !.allowance[sender][vault] = BigSub(@, amount),
                          !.bal[sender] = BigSub(@, amount),
                          !.vaultBal[vault] = BigAdd(@, amount)]]
    ELSE [ok |-> FALSE, c |-> c]

\* one sub-call of an execution batch, executed by the account
Execute(c, account, execution) ==
    CASE execution.target = MockToken /\ execution.callData[1] = "approve(address,uint256)"
            -> TokenApprove(c, account, execution.callData[2], execution.callData[3])
      [] execution.target \in Vaults /\ execution.callData[1] = "deposit(uint256)"
            -> VaultDeposit(c, execution.target, account, execution.callData[2])
      [] OTHER -> [ok |-> FALSE, c |-> c]

\* the account executes the batch in order; the first failing sub-call fails the batch
RECURSIVE ExecuteBatch(_, _, _)
ExecuteBatch(c, account, execs) ==
    IF execs = <<>> THEN [ok |-> TRUE, c |-> c]
    ELSE LET first == Execute(c, account, Head(execs))
         IN  IF first.ok THEN ExecuteBatch(first.c, account, Tail(execs))
             ELSE [ok |-> FALSE, c |-> c]

\* what a batch hands out: the sum of the amounts it approves
RECURSIVE BatchTotal(_)
BatchTotal(execs) ==
    IF execs = <<>> THEN BigZero
    ELSE BigAdd(IF Head(execs).callData[1] = "approve(address,uint256)"
                THEN Head(execs).callData[3] ELSE BigZero,
                BatchTotal(Tail(execs)))

\* BondModule.executeBatchWithAttestation: fails on an account without code, an invalid
\* signature, a reused nonce, or a batch that hands out more than bps (allowedPercentageBps)
\* of the account's balance; else marks the nonce used and has the account execute the batch
ExecuteBatchWithAttestation(c, account, executionBatch, token, bps, nonce, signature) ==
    LET digest == EthSignedHash(AttestationHash(ChainId, account, token,
                                                bps, nonce, executionBatch))
        execs == DecodeBatch(executionBatch)
        done == ExecuteBatch(c, account, execs)
    IN  IF /\ account \in c.code
           /\ Recover(digest, signature) = Deployer
           /\ <<account, token, nonce>> \notin c.usedNonces
           /\ BigLeq(BatchTotal(execs),
                     BigDiv(BigMul(c.bal[account], bps), TOTAL_PERCENTAGE))
           /\ done.ok
        THEN [ok |-> TRUE,
              c |-> [done.c EXCEPT !.usedNonces = @ \cup {<<account, token, nonce>>}]]
        ELSE [ok |-> FALSE, c |-> c]

\* BiconomyMetaFactory.deployWithFactory -> NexusAccountFactory.createAccount(initData, salt):
\* code appears at the computed address; on an address that already has code the factory
\* either reverts or returns the existing account (redeploy says which)
DeployWithFactory(c, factoryData, redeploy) ==
    LET account == ComputeAccountAddress(factoryData[2], factoryData[3])
    IN  IF account \notin c.code
        THEN [ok |-> TRUE, c |-> [c EXCEPT !.code = @ \cup {account}]]
        ELSE [ok |-> redeploy = "existing", c |-> c]

\* one call of an aggregate: env.forced is the index of a sub-call that the environment
\* makes revert (0: none), env.redeploy the factory's answer on an existing account
Call3(c, call, index, env) ==
    CASE index = env.forced -> [ok |-> FALSE, c |-> c]
      [] call.target = BiconomyMetaFactory
            /\ call.callData[1] = "deployWithFactory(address,bytes)"
            -> DeployWithFactory(c, call.callData[3], env.redeploy)
      [] call.target = BondModule
            /\ call.callData[1]
                = "executeBatchWithAttestation(address,bytes,address,uint256,uint256,bytes)"
            -> ExecuteBatchWithAttestation(c, call.callData[2], call.callData[3],
                                           call.callData[4], call.callData[5],
                                           call.callData[6], call.callData[7])
      [] OTHER -> [ok |-> FALSE, c |-> c]

\* Multicall3.aggregate3(calls): the calls run in order; a failing call with
\* allowFailure = false reverts the whole aggregate, one with allowFailure = true is skipped.
\* Returns [reverted, c, results].
RECURSIVE Aggregate3From(_, _, _, _, _, _)
Aggregate3From(c0, c, callList, index, results, env) ==
    IF index > Len(callList) THEN [reverted |-> FALSE, c |-> c, results |-> results]
    ELSE LET res == Call3(c, callList[index], index, env)
         IN  IF res.ok
             THEN Aggregate3From(c0, res.c, callList, index + 1, Append(results, TRUE), env)
             ELSE IF callList[index].allowFailure
             THEN Aggregate3From(c0, c, callList, index + 1, Append(results, FALSE), env)
             ELSE [reverted |-> TRUE, c |-> c0, results |-> Append(results, FALSE)]

Aggregate3(c, callList, env) == Aggregate3From(c, c, callList, 1, <<>>, env)

(***************************************************************************)
(* The scripts.  A run is one execution of main(); pc is the awaited       *)
(* operation it is about to issue.  "exit0" / "exit1" are process.exit(0)  *)
(* and process.exit(1).  ops lists the transactions, signatures and file   *)
(* writes the run has issued (reads are not listed); polls is the loop     *)
(* variable i of the balance check, which exists only inside the loop,     *)
(* and balance the last balance that loop has read;                        *)
(* submitted is the calls argument of the aggregate3 the run has sent.     *)
(***************************************************************************)
MAX_BALANCE_CHECKS == 10

NoReceipt == [status |-> "none", results |-> <<>>]

\* the locals before preComputeAccountAddress has returned
NoAddress == [factory |-> "none", initData |-> <<>>, salt |-> <<>>]

RunInit ==
    [pc |-> "start", retryOf |-> {}, accountAddress |-> NoAddress, initData |-> <<>>,
     salt |-> <<>>, polls |-> 0, balance |-> BigZero, accountBalance |-> BigZero,
     nonce |-> -1, submitted |-> <<>>, receipt |-> NoReceipt, alreadyDeployed |-> FALSE,
     ops |-> <<>>, error |-> "none", confirmations |-> 0]

BuilderIdle ==
    [pc |-> "idle", accountBalance |-> BigZero, plan |-> Plan, amounts |-> <<>>,
     executions |-> <<>>]

PackerIdle == [pc |-> "idle"]

\* deployments.json: whether the file exists, the keys it holds beside
\* networks.baseSepolia.modules.bondModule, and that one entry (none or one)
LedgerMissing == [exists |-> FALSE, others |-> {}, bondModule |-> {}]

\* what a file written by the other deployment scripts holds
OtherKeys == {"networks.baseSepolia.contracts"}

LedgerInit == {LedgerMissing, [exists |-> TRUE, others |-> OtherKeys, bondModule |-> {}]}

Init ==
    /\ impl \in Setups
    /\ clock = 0
    /\ chain = ChainInit
    /\ ledger \in (IF impl = "viem" THEN {LedgerMissing} ELSE LedgerInit)
    /\ run = [r \in Runs |-> RunInit]
    /\ builder = BuilderIdle
    /\ packer = PackerIdle

\* a plausible slip: a failed run is started over
ThrowAndRestart(r, step, issued) ==
    run' = [run EXCEPT ![r].pc = "start", ![r].error = step, ![r].ops = @ \o issued]

\* a throw anywhere in main(): console.error(error); process.exit(1)
Throw(r, step, issued) ==
    run' = [run EXCEPT ![r].pc = "exit1", ![r].error = step, ![r].ops = @ \o issued]

\* the runs whose atomic submission has failed so far
FailedExecutes == {q \in Runs : run[q].receipt.status = "reverted"}

\* a plausible slip: the key is looked at only after the address was queried
MainKeyCheckedLate(r) ==
    /\ run[r].pc = "start"
    /\ \A q \in Runs : q < r => run[q].pc # "start"
    /\ \E privateKey \in BOOLEAN, queryOk \in BOOLEAN :
          IF ~queryOk THEN Throw(r, "computeAccountAddress", <<>>)
          ELSE LET initData == InitData(Deployer)
                   salt == Salt(ImplOf(r), clock)
               IN  run' = [run EXCEPT
                      ![r].pc = IF privateKey THEN "checkCode" ELSE "exit1",
                      ![r].error = IF privateKey THEN @ ELSE "PRIVATE_KEY",
                      ![r].retryOf = FailedExecutes,
                      ![r].initData = initData,
                      ![r].salt = salt,
                      ![r].accountAddress = ComputeAccountAddress(initData, salt)]
    /\ UNCHANGED <<impl, clock, chain, ledger, builder, packer>>

\* main() up to and including preComputeAccountAddress: the PRIVATE_KEY check, the salt
\* from the clock, the address query
Main(r) ==
    /\ run[r].pc = "start"
    /\ \A q \in Runs : q < r => run[q].pc # "start"
    /\ \E privateKey \in BOOLEAN, queryOk \in BOOLEAN :
          IF ~privateKey THEN Throw(r, "PRIVATE_KEY", <<>>)
          ELSE IF ~queryOk THEN Throw(r, "computeAccountAddress", <<>>)
          ELSE LET initData == InitData(Deployer)
                   salt == Salt(ImplOf(r), clock)
               IN  run' = [run EXCEPT
                      ![r].pc = "checkCode",
                      ![r].retryOf = FailedExecutes,
                      ![r].initData = initData,
                      ![r].salt = salt,
                      ![r].accountAddress = ComputeAccountAddress(initData, salt)]
    /\ UNCHANGED <<impl, clock, chain, ledger, builder, packer>>

\* a plausible slip: the result of the code check is logged and the flow goes on
CheckCodeThenMintAnyway(r) ==
    /\ run[r].pc = "checkCode"
    /\ run' = [run EXCEPT
          ![r].pc = "mint",
          ![r].alreadyDeployed = run[r].accountAddress \in chain.code]
    /\ UNCHANGED <<impl, clock, chain, ledger, builder, packer>>

\* getCode(accountAddress): already deployed -> skip (and, but for "viem", update the ledger)
CheckCode(r) ==
    /\ run[r].pc = "checkCode"
    /\ run' = [run EXCEPT
          ![r].pc = IF run[r].accountAddress \notin chain.code THEN "mint"
                    ELSE IF ImplOf(r) = "viem" THEN "exit0" ELSE "ledger",
          ![r].alreadyDeployed = run[r].accountAddress \in chain.code]
    /\ UNCHANGED <<impl, clock, chain, ledger, builder, packer>>

\* the depth a script waits for after a transaction: "viem" asks for confirmations: 2,
\* "artifact" (waitForTransactionReceipt({ hash })) and "hardhat" (tx.wait()) pass no
\* depth and get the receipt of the including block, depth 1
Confirmations(i) == IF i = "viem" THEN 2 ELSE 1

\* the arguments of the mint
MintNothing(accountAddress) == <<accountAddress, BigZero>>

MintArgs(accountAddress) == <<accountAddress, INITIAL_TOKEN_BALANCE>>

\* a plausible slip: the mint is sent and its receipt is not awaited
MintTokensToAccountNotAwaited(r) ==
    /\ run[r].pc = "mint"
    /\ \E sent \in BOOLEAN :
          IF ~sent
          THEN /\ Throw(r, "mint", <<>>)
               /\ UNCHANGED chain
          ELSE /\ chain' = TokenMint(chain, MintArgs(run[r].accountAddress)[1],
                                     MintArgs(run[r].accountAddress)[2])
               /\ run' = [run EXCEPT
                      ![r].pc = IF ImplOf(r) = "viem" THEN "poll" ELSE "deploy",
                      ![r].ops = @ \o <<"mint">>]
    /\ UNCHANGED <<impl, clock, ledger, builder, packer>>

\* mintTokensToAccount up to the confirmed mint ("artifact" and "hardhat" first log whether
\* the address has code, and afterwards log one balance read)
MintTokensToAccount(r) ==
    /\ run[r].pc = "mint"
    /\ \E sent \in BOOLEAN :
          IF ~sent
          THEN /\ Throw(r, "mint", <<>>)
               /\ UNCHANGED chain
          ELSE /\ chain' = TokenMint(chain, MintArgs(run[r].accountAddress)[1],
                                     MintArgs(run[r].accountAddress)[2])
               /\ run' = [run EXCEPT
                      ![r].pc = IF ImplOf(r) = "viem" THEN "poll" ELSE "deploy",
                      ![r].confirmations = Confirmations(ImplOf(r)),
                      ![r].ops = @ \o <<"mint">>]
    /\ UNCHANGED <<impl, clock, ledger, builder, packer>>

\* a plausible slip: the loop bound off by one (i <= 10)
PollBalanceOffByOne(r) ==
    /\ run[r].pc = "poll"
    /\ \E balance \in {chain.bal[run[r].accountAddress], BigZero} :
          IF BigLess(BigZero, balance)
          THEN run' = [run EXCEPT ![r].pc = "deploy", ![r].polls = 0, ![r].balance = balance]
          ELSE IF run[r].polls + 1 <= MAX_BALANCE_CHECKS
          THEN run' = [run EXCEPT ![r].polls = @ + 1, ![r].balance = balance]
          ELSE run' = [run EXCEPT ![r].pc = "exit1", ![r].polls = 0, ![r].balance = balance,
                                  ![r].error = "balance"]
    /\ UNCHANGED <<impl, clock, chain, ledger, builder, packer>>

\* "viem" only: one turn of the balance-check loop; a read may still show the balance from
\* before the mint (state propagation), which for a fresh address is zero
PollBalance(r) ==
    /\ run[r].pc = "poll"
    /\ \E balance \in {chain.bal[run[r].accountAddress], BigZero} :
          IF BigLess(BigZero, balance)
          THEN run' = [run EXCEPT ![r].pc = "deploy", ![r].polls = 0, ![r].balance = balance]
          ELSE IF run[r].polls + 1 < MAX_BALANCE_CHECKS
          THEN run' = [run EXCEPT ![r].polls = @ + 1, ![r].balance = balance]
          ELSE run' = [run EXCEPT ![r].pc = "exit1", ![r].polls = 0, ![r].balance = balance,
                                  ![r].error = "balance"]
    /\ UNCHANGED <<impl, clock, chain, ledger, builder, packer>>

\* deployAccountAndExecuteDistribution up to the signature: the balance read (which, like
\* the reads of the balance-check loop, may still show zero) and the nonce from the clock; the amounts, the batch, the attestation hash and the signature are
\* computed from them (RunExecutionBatch, RunSignature)
BuildAndSign(r) ==
    /\ run[r].pc = "deploy"
    /\ \E balance \in {chain.bal[run[r].accountAddress], BigZero} :
          run' = [run EXCEPT
             ![r].pc = "submit",
             ![r].accountBalance = balance,
             ![r].nonce = clock,
             ![r].ops = @ \o <<"signMessage">>]
    /\ UNCHANGED <<impl, clock, chain, ledger, builder, packer>>

\* amountZyFAI, amountGiza, amountCod3x of a run
RunAmounts(r) == Amounts(run[r].accountBalance, Plan)

\* executionBatch of a run
RunExecutionBatch(r) ==
    EncodeBatch(executions(RunAmounts(r)[1], RunAmounts(r)[2], RunAmounts(r)[3]))

\* attestationHash of a run
RunAttestationHash(r) ==
    AttestationHash(ChainId, run[r].accountAddress, MockToken, TOTAL_PERCENTAGE,
                    run[r].nonce, RunExecutionBatch(r))

\* signature of a run
RunSignature(r) == Signature(ImplOf(r), Deployer, RunAttestationHash(r))

\* a plausible slip: the nonce taken from the clock again when the call is encoded
RunCallsNonceReread(r) ==
    calls(EncodeCreateAccount(run[r].initData, run[r].salt),
          EncodeExecuteBatch(run[r].accountAddress, RunExecutionBatch(r), MockToken,
                             TOTAL_PERCENTAGE, clock, RunSignature(r)))

\* a plausible slip: the timestamp salt computed again when the deployment is encoded
RunCallsSaltReread(r) ==
    calls(EncodeCreateAccount(run[r].initData, Salt(ImplOf(r), clock)),
          EncodeExecuteBatch(run[r].accountAddress, RunExecutionBatch(r), MockToken,
                             TOTAL_PERCENTAGE, run[r].nonce, RunSignature(r)))

\* the calls a run submits
RunCalls(r) ==
    calls(EncodeCreateAccount(run[r].initData, run[r].salt),
          EncodeExecuteBatch(run[r].accountAddress, RunExecutionBatch(r), MockToken,
                             TOTAL_PERCENTAGE, run[r].nonce, RunSignature(r)))

\* aggregate3(calls) submitted and confirmed.  "viem" throws unless receipt.status is
\* success; "hardhat" throws in tx.wait() on a reverted transaction; "artifact" does not
\* look at the status.  The last two then verify the deployment.
SubmitMulticall(r) ==
    /\ run[r].pc = "submit"
    /\ \E forced \in 0..2,
          redeploy \in (IF run[r].accountAddress \in chain.code
                        THEN {"reverts", "existing"} ELSE {"reverts"}) :
          LET mined == Aggregate3(chain, RunCalls(r), [forced |-> forced, redeploy |-> redeploy])
              receipt == [status |-> IF mined.reverted THEN "reverted" ELSE "success",
                          results |-> mined.results]
          IN  /\ chain' = mined.c
              /\ run' = [run EXCEPT
                    ![r].submitted = RunCalls(r),
                    ![r].receipt = receipt,
                    ![r].confirmations = Confirmations(ImplOf(r)),
                    ![r].ops = @ \o <<"aggregate3">>,
                    ![r].error = IF mined.reverted /\ ImplOf(r) # "artifact"
                                 THEN "aggregate3" ELSE @,
                    ![r].pc = CASE ImplOf(r) = "viem" -> IF mined.reverted THEN "exit1" ELSE "exit0"
                                [] ImplOf(r) = "hardhat" -> IF mined.reverted THEN "exit1" ELSE "verify"
                                [] ImplOf(r) = "artifact" -> "verify"]
    /\ UNCHANGED <<impl, clock, ledger, builder, packer>>

\* "artifact" and "hardhat": getCode(accountAddress) after the receipt; no code -> throw
VerifyDeployment(r) ==
    /\ run[r].pc = "verify"
    /\ IF run[r].accountAddress \in chain.code
       THEN run' = [run EXCEPT ![r].pc = "ledger"]
       ELSE Throw(r, "no code at address", <<>>)
    /\ UNCHANGED <<impl, clock, chain, ledger, builder, packer>>

SecondsPerDay == 86400

\* a plausible slip: the whole ISO timestamp kept, not only its date part
DeploymentDateWithTime(timestamp) == timestamp

\* new Date().toISOString().split("T")[0]: the day of the wall clock
DeploymentDate(timestamp) == timestamp \div SecondsPerDay

\* the value assigned to deployments.networks.baseSepolia.modules.bondModule (its other
\* fields are constants of the script)
BondModuleEntry(nexusAccountAddress, timestamp) ==
    [address |-> BondModule, deploymentDate |-> DeploymentDate(timestamp),
     demoAccount |-> nexusAccountAddress]

\* the parsed file (or {}) with the one entry assigned
UpdatedDeployments(deployments, entry) ==
    [exists |-> TRUE, others |-> deployments.others, bondModule |-> {entry}]

\* updateDeploymentsJson: "hardhat" reads the file unconditionally (a missing file throws),
\* "artifact" starts from {} when it is missing; both then overwrite modules.bondModule
UpdateDeploymentsJson(r) ==
    /\ run[r].pc = "ledger"
    /\ IF ImplOf(r) = "hardhat" /\ ~ledger.exists
       THEN /\ Throw(r, "deployments.json", <<>>)
            /\ UNCHANGED ledger
       ELSE /\ ledger' = UpdatedDeployments(ledger,
                                         BondModuleEntry(run[r].accountAddress, clock))
            /\ run' = [run EXCEPT ![r].pc = "exit0", ![r].ops = @ \o <<"writeFile">>]
    /\ UNCHANGED <<impl, clock, chain, builder, packer>>

\* a second passes
Tick ==
    /\ clock < MaxClock
    /\ clock' = clock + 1
    /\ UNCHANGED <<impl, chain, ledger, run, builder, packer>>

Next ==
    \/ Tick
    \/ \E r \in Runs :
          \/ Main(r)
          \/ CheckCode(r)
          \/ MintTokensToAccount(r)
          \/ PollBalance(r)
          \/ BuildAndSign(r)
          \/ SubmitMulticall(r)
          \/ VerifyDeployment(r)
          \/ UpdateDeploymentsJson(r)

Spec == Init /\ [][Next]_vars

\* the event loop resumes a run whose awaited balance read has returned
FairSpec == Spec /\ \A r \in Runs : WF_vars(PollBalance(r))

(***************************************************************************)
(* Properties of the flow                                                  *)
(***************************************************************************)
\* the account's place in the lifecycle Undeployed -> Funded -> Deployed+Distributed,
\* read off the chain
Lifecycle(c, account) ==
    IF account \in c.code THEN "DeployedDistributed"
    ELSE IF c.bal[account] # BigZero THEN "Funded"
    ELSE "Undeployed"

\* the attested batch has run for the account: the verifier has consumed a nonce for it
Distributed(c, account) == \E used \in c.usedNonces : used[1] = account

\* run r has issued the operation op
Issued(r, op) == \E k \in DOMAIN run[r].ops : run[r].ops[k] = op

\* a sub-call of the transaction failed
SubCallFailed(receipt) == \E k \in DOMAIN receipt.results : ~receipt.results[k]

\* C1: whenever a sub-call of the submitted multicall fails (forced, signature rejected,
\* nonce replayed, cap exceeded, deployment reverting), the transaction leaves the chain as
\* it was: no code appears at the account, and no balance, allowance or nonce changes
C1_AtomicRollback ==
    [][\A r \in Runs :
          (run[r].pc = "submit" /\ run'[r].pc # "submit" /\ SubCallFailed(run'[r].receipt))
             => /\ chain'.code = chain.code
                /\ (run[r].accountAddress \notin chain.code
                       => run[r].accountAddress \notin chain'.code)
                /\ chain'.bal = chain.bal
                /\ chain'.vaultBal = chain.vaultBal
                /\ chain'.allowance = chain.allowance
                /\ chain'.usedNonces = chain.usedNonces]_vars

\* the deploy sub-call succeeded, the attested execution then failed, and the account has
\* no code and still holds what was minted to it
C1_Witness ==
    \E r \in Runs :
        /\ run[r].receipt.status = "reverted"
        /\ run[r].receipt.results = <<TRUE, FALSE>>
        /\ run[r].accountAddress \notin chain.code
        /\ chain.bal[run[r].accountAddress] = INITIAL_TOKEN_BALANCE

\* C2: in every reachable state an account has code if and only if its attested batch has
\* run, and the vaults hold tokens only once some account is deployed
C2_DeployedIffDistributed ==
    /\ \A a \in Addrs : (a \in chain.code) <=> Distributed(chain, a)
    /\ (\E v \in Vaults : chain.vaultBal[v] # BigZero) => chain.code # {}

\* an account is deployed, its batch has run and the vaults hold its tokens
C2_Witness ==
    \E a \in Addrs :
        /\ a \in chain.code
        /\ Distributed(chain, a)
        /\ chain.vaultBal[EscrowCod3x] = BigMul(Big(400000), 10000)

\* C3: each step moves an account forward along Undeployed -> Funded ->
\* Deployed+Distributed or leaves it where it is; Funded is entered only by a run's mint
\* to that account, Deployed+Distributed only from Funded by a run's successful atomic
\* submission for that account, and Deployed+Distributed is never left
C3_LifecycleForwardOnly ==
    [][\A a \in Addrs :
          LET before == Lifecycle(chain, a)
              after == Lifecycle(chain', a)
          IN  /\ <<before, after>> \in {<<"Undeployed", "Undeployed">>,
                                        <<"Undeployed", "Funded">>,
                                        <<"Funded", "Funded">>,
                                        <<"Funded", "DeployedDistributed">>,
                                        <<"DeployedDistributed", "DeployedDistributed">>}
              /\ (before # "Funded" /\ after = "Funded")
                    => \E r \in Runs : /\ run[r].pc = "mint"
                                       /\ run[r].accountAddress = a
                                       /\ run'[r].ops = Append(run[r].ops, "mint")
              /\ (before # "DeployedDistributed" /\ after = "DeployedDistributed")
                    => \E r \in Runs : /\ run[r].pc = "submit"
                                       /\ run[r].accountAddress = a
                                       /\ run'[r].receipt.status = "success"
                                       /\ run'[r].receipt.results = <<TRUE, TRUE>>]_vars

\* a run has minted to its account, submitted successfully and finished, and the account
\* is Deployed+Distributed
C3_Witness ==
    \E r \in Runs :
        /\ run[r].pc = "exit0"
        /\ Issued(r, "mint")
        /\ run[r].receipt.status = "success"
        /\ Lifecycle(chain, run[r].accountAddress) = "DeployedDistributed"

\* C4: a failed atomic submission leaves a Funded account Funded (a later run that
\* pre-computes the same address and signs a fresh nonce can then deploy it: C4_Witness)
C4_FailedExecuteStaysFunded ==
    [][\A r \in Runs :
          (/\ run[r].pc = "submit"
           /\ run'[r].pc # "submit"
           /\ SubCallFailed(run'[r].receipt)
           /\ Lifecycle(chain, run[r].accountAddress) = "Funded")
             => Lifecycle(chain', run[r].accountAddress) = "Funded"]_vars

\* a run started after another run's failed submission, with the same salt and so the same
\* account, signed a different nonce and carried the account to Deployed+Distributed
C4_Witness ==
    \E p \in Runs, q \in Runs :
        /\ p \in run[q].retryOf
        /\ run[p].receipt.status = "reverted"
        /\ run[q].salt = run[p].salt
        /\ run[q].accountAddress = run[p].accountAddress
        /\ run[q].nonce # run[p].nonce
        /\ run[q].receipt.status = "success"
        /\ Lifecycle(chain, run[p].accountAddress) = "DeployedDistributed"

\* C5: a run that found code at its pre-computed address issues no mint and no multicall,
\* and does not end in process.exit(1)
C5_ShortCircuitSucceeds ==
    \A r \in Runs :
        run[r].alreadyDeployed
           => /\ ~Issued(r, "mint")
              /\ ~Issued(r, "aggregate3")
              /\ run[r].pc # "exit1"

\* C6: the calls of every submitted aggregate3 are exactly two, both with
\* allowFailure = false: first deployWithFactory on the meta factory, carrying the account
\* factory and createAccount(initData, salt) of the run, then executeBatchWithAttestation on
\* the BondModule with the run's account, batch, the token, the cap in bps, the run's nonce
\* and its signature
C6_TwoSubCallsInOrder ==
    \A r \in Runs :
        Issued(r, "aggregate3")
           => LET sent == run[r].submitted
              IN  /\ Len(sent) = 2
                  /\ sent[1].target = BiconomyMetaFactory
                  /\ sent[1].allowFailure = FALSE
                  /\ sent[1].callData
                        = <<"deployWithFactory(address,bytes)", NexusAccountFactory,
                            <<"createAccount(bytes,bytes32)", run[r].initData, run[r].salt>>>>
                  /\ sent[2].target = BondModule
                  /\ sent[2].allowFailure = FALSE
                  /\ sent[2].callData
                        = <<"executeBatchWithAttestation(address,bytes,address,uint256,uint256,bytes)",
                            run[r].accountAddress, RunExecutionBatch(r), MockToken,
                            TOTAL_PERCENTAGE, run[r].nonce, RunSignature(r)>>

\* a run has submitted its two calls and the transaction succeeded
C6_Witness ==
    \E r \in Runs :
        /\ Issued(r, "aggregate3")
        /\ Len(run[r].submitted) = 2
        /\ run[r].receipt.results = <<TRUE, TRUE>>

(***************************************************************************)
(* The batch builder on its own: a balance and a three-entry plan drawn    *)
(* from bounded sets, then the two steps of the code (amounts, batch).     *)
(***************************************************************************)
MaxBalance == 25

ShareGrid == {1, 2, 2000, 2500, 3000, 3333, 3334, 4000, 4999, 5000, 7500, 9998}

PlanSet == {p \in ShareGrid \X ShareGrid \X ShareGrid : p[1] + p[2] + p[3] = TOTAL_PERCENTAGE}

\* small balances (where the rounding shows) on top of zero, one or two mints
BalanceSet ==
    {BigAdd(BigMul(INITIAL_TOKEN_BALANCE, k), Big(b)) : k \in 0..2, b \in 0..MaxBalance}

BuilderInit ==
    /\ impl = "viem"
    /\ clock = 0
    /\ chain = ChainInit
    /\ ledger = LedgerMissing
    /\ run = [r \in Runs |-> RunInit]
    /\ builder \in [pc : {"start"}, accountBalance : BalanceSet, plan : PlanSet,
                 amounts : {<<>>}, executions : {<<>>}]
    /\ packer = PackerIdle

ComputeAmounts ==
    /\ builder.pc = "start"
    /\ builder' = [builder EXCEPT !.pc = "amounts",
                                  !.amounts = Amounts(builder.accountBalance, builder.plan)]
    /\ UNCHANGED <<impl, clock, chain, ledger, run, packer>>

BuildExecutions ==
    /\ builder.pc = "amounts"
    /\ builder' = [builder EXCEPT !.pc = "built",
                                  !.executions = executions(builder.amounts[1],
                                                            builder.amounts[2],
                                                            builder.amounts[3])]
    /\ UNCHANGED <<impl, clock, chain, ledger, run, packer>>

BuilderNext == ComputeAmounts \/ BuildExecutions

BuildSpec == BuilderInit /\ [][BuilderNext]_vars

\* the amount a sub-call of the batch carries (its last argument)
CallAmount(call) == call.callData[Len(call.callData)]

\* the sum of the amounts the batch deposits
DepositSum(batch) ==
    BigAdd(BigAdd(CallAmount(batch[2]), CallAmount(batch[4])), CallAmount(batch[6]))

AmountSum(amounts) == BigAdd(BigAdd(amounts[1], amounts[2]), amounts[3])

(***************************************************************************)
(* C7.  For any plan whose shares sum to 10000 and any balance B >= 0 the  *)
(* computed amounts sum to at most B, and the shortfall B - sum is         *)
(* strictly less than the number of plan entries.                          *)
(***************************************************************************)
C7_SumAtMostBalance ==
    builder.pc # "start" =>
        /\ BigLeq(AmountSum(builder.amounts), builder.accountBalance)
        /\ BigLess(BigSub(builder.accountBalance, AmountSum(builder.amounts)),
                   Big(Len(builder.plan)))

\* a balance that loses the most the claim allows (entries - 1 units)
C7_Witness ==
    /\ builder.pc = "amounts"
    /\ builder.plan[1] + builder.plan[2] + builder.plan[3] = TOTAL_PERCENTAGE
    /\ BigSub(builder.accountBalance, AmountSum(builder.amounts)) = Big(Len(builder.plan) - 1)

(***************************************************************************)
(* C8.  Every entry's amount in the batch is exactly                       *)
(* floor(balance * s / 10000), that is amount * 10000 <= balance * s <     *)
(* (amount + 1) * 10000, for its own share s alone; the remainder is added *)
(* to no entry.                                                            *)
(***************************************************************************)
IsFloorOf(amount, accountBalance, share) ==
    /\ BigLeq(BigMul(amount, TOTAL_PERCENTAGE), BigMul(accountBalance, share))
    /\ BigLess(BigMul(accountBalance, share), BigMul(BigAdd(amount, Big(1)), TOTAL_PERCENTAGE))

C8_EachAmountIsItsFloor ==
    builder.pc = "built" =>
        \A i \in 1..3 :
            /\ IsFloorOf(CallAmount(builder.executions[2 * i]),
                         builder.accountBalance, builder.plan[i])
            /\ CallAmount(builder.executions[2 * i - 1]) = CallAmount(builder.executions[2 * i])

\* a batch built from a balance that leaves a remainder
C8_Witness ==
    /\ builder.pc = "built"
    /\ BigLess(DepositSum(builder.executions), builder.accountBalance)

(***************************************************************************)
(* C9.  When balance * s is divisible by 10000 for every entry the amounts *)
(* sum to exactly the balance; balance 10,000,000,000 under 3000/3000/4000 *)
(* gives 3,000,000,000 / 3,000,000,000 / 4,000,000,000.                    *)
(***************************************************************************)
C9_NoLossWhenDivisible ==
    builder.pc # "start" =>
        /\ (\A i \in 1..3 : BigMod(BigMul(builder.accountBalance, builder.plan[i]),
                                   TOTAL_PERCENTAGE) = 0)
              => AmountSum(builder.amounts) = builder.accountBalance
        /\ (builder.accountBalance = BigMul(Big(1000000), 10000) /\ builder.plan = <<3000, 3000, 4000>>)
              => builder.amounts = << BigMul(Big(300000), 10000), BigMul(Big(300000), 10000),
                                     BigMul(Big(400000), 10000) >>

\* the concrete scenario of the specification
C9_Witness ==
    /\ builder.pc = "amounts"
    /\ builder.accountBalance = INITIAL_TOKEN_BALANCE
    /\ builder.plan = Plan
    /\ AmountSum(builder.amounts) = INITIAL_TOKEN_BALANCE

(***************************************************************************)
(* C10.  The batch has exactly two sub-calls per plan entry, in the plan's *)
(* order ZyFAI, Giza, Cod3x, and each entry's approve sits immediately     *)
(* before its deposit.                                                     *)
(***************************************************************************)
C10_ApproveThenDepositInPlanOrder ==
    builder.pc = "built" =>
        /\ Len(builder.executions) = 2 * Len(builder.plan)
        /\ \A i \in 1..3 :
              /\ builder.executions[2 * i - 1].callData[1] = "approve(address,uint256)"
              /\ builder.executions[2 * i - 1].callData[2] = PlanVaults[i]
              /\ builder.executions[2 * i].callData[1] = "deposit(uint256)"
              /\ builder.executions[2 * i].target = PlanVaults[i]

\* a built batch whose three entries carry three different amounts
C10_Witness ==
    /\ builder.pc = "built"
    /\ Len(builder.executions) = 6
    /\ Cardinality({CallAmount(builder.executions[2 * i]) : i \in 1..3}) = 3

(***************************************************************************)
(* C11.  For every plan entry the approve sub-call targets the token and   *)
(* grants the entry's vault exactly the entry's computed amount, and the   *)
(* deposit that follows targets that vault with that amount: no deposit    *)
(* asks for more than the allowance granted immediately before it.         *)
(***************************************************************************)
C11_ApproveGrantsWhatDepositTakes ==
    builder.pc = "built" =>
        \A i \in 1..3 :
            LET approve == builder.executions[2 * i - 1]
                deposit == builder.executions[2 * i]
            IN  /\ approve.target = MockToken
                /\ approve.callData = <<"approve(address,uint256)", PlanVaults[i],
                                        builder.amounts[i]>>
                /\ deposit.target = approve.callData[2]
                /\ deposit.callData = <<"deposit(uint256)", builder.amounts[i]>>
                /\ BigLeq(deposit.callData[2], approve.callData[3])

\* a built batch whose first and last entries carry different, non-zero amounts
C11_Witness ==
    /\ builder.pc = "built"
    /\ builder.executions[1].callData[3] # BigZero
    /\ builder.executions[5].callData[3] # BigZero
    /\ builder.executions[1].callData[3] # builder.executions[5].callData[3]
    /\ builder.executions[2].callData[2] = builder.executions[1].callData[3]

(***************************************************************************)
(* C12.  In every run the account, batch bytes, token, cap and nonce       *)
(* submitted to executeBatchWithAttestation are the values inside the      *)
(* digest that was signed, and the chain id in that digest is the chain    *)
(* the transaction is submitted on.                                        *)
(***************************************************************************)
\* the pre-image of the attestation hash inside a signature: the signed digest without its
\* message prefix ("artifact" signs a digest that already carries one)
AttestedFields(i, signature) ==
    LET unwrapped == signature.digest[2][2]
        attestationHash == IF i = "artifact" THEN unwrapped[2][2] ELSE unwrapped
    IN  attestationHash[2]

C12_SubmittedValuesAreTheSignedOnes ==
    \A r \in Runs :
        Issued(r, "aggregate3")
           => LET sent == run[r].submitted[2].callData
                  signed == AttestedFields(ImplOf(r), sent[7])
              IN  /\ signed[1] = ChainId
                  /\ sent[2] = signed[2]
                  /\ sent[4] = signed[3]
                  /\ sent[5] = signed[4]
                  /\ sent[6] = signed[5]
                  /\ sent[3] = signed[6]

\* a run has submitted, and the clock has moved on since it took its nonce
C12_Witness ==
    \E r \in Runs :
        /\ Issued(r, "aggregate3")
        /\ run[r].nonce < clock
        /\ AttestedFields(ImplOf(r), run[r].submitted[2].callData[7])[5] = run[r].nonce

(***************************************************************************)
(* C13.  In each of the three implementations the signed message is the    *)
(* attestation digest wrapped with the personal-message prefix exactly     *)
(* once, so the verifier, which prefixes the digest it recomputes once,    *)
(* recovers the authorizer from the signature.                             *)
(***************************************************************************)
C13_PrefixedExactlyOnce ==
    \A r \in Runs :
        Issued(r, "signMessage")
           => /\ RunSignature(r).digest = EthSignedHash(RunAttestationHash(r))
              /\ Recover(EthSignedHash(RunAttestationHash(r)), RunSignature(r)) = Deployer

(***************************************************************************)
(* C14.  No two atomic submissions carry the same (account, token, nonce)  *)
(* triple, also when the two runs were started within the same clock       *)
(* second.                                                                 *)
(***************************************************************************)
\* the (account, token, nonce) a run has submitted to the verifier
SubmittedTriple(r) ==
    LET sent == run[r].submitted[2].callData
    IN  <<sent[2], sent[4], sent[6]>>

C14_NonceNeverPresentedTwice ==
    \A p \in Runs, q \in Runs :
        (p # q /\ Issued(p, "aggregate3") /\ Issued(q, "aggregate3"))
           => SubmittedTriple(p) # SubmittedTriple(q)

(***************************************************************************)
(* The attestation digest on its own, at the level of bytes: two inputs    *)
(* drawn from bounded sets, serialized (encodeAbiParameters of the         *)
(* executions), packed (encodePacked of the six fields) and hashed.        *)
(* Addresses and integers are numbers, bytes are sequences of 0..255.      *)
(***************************************************************************)
\* the big-endian bytes of n, `width` of them
ToBytes(n, width) ==
    [k \in 1..width |-> IF width - k > 3 THEN 0 ELSE (n \div (256 ^ (width - k))) % 256]

\* bytes padded with zeros on the right to a multiple of 32
PadRight(bytes) == bytes \o [k \in 1..((32 - (Len(bytes) % 32)) % 32) |-> 0]

\* one (address target, uint256 value, bytes callData): two words, the offset of the
\* bytes, their length, and the bytes padded
EncodeAbiExecution(execution) ==
    ToBytes(execution.target, 32) \o ToBytes(execution.value, 32) \o ToBytes(96, 32)
        \o ToBytes(Len(execution.callData), 32) \o PadRight(execution.callData)

\* the offsets of the elements, from the start of the array's data
RECURSIVE EncodeAbiOffsets(_, _)
EncodeAbiOffsets(execs, offset) ==
    IF execs = <<>> THEN <<>>
    ELSE ToBytes(offset, 32)
            \o EncodeAbiOffsets(Tail(execs), offset + Len(EncodeAbiExecution(Head(execs))))

RECURSIVE EncodeAbiElements(_)
EncodeAbiElements(execs) ==
    IF execs = <<>> THEN <<>>
    ELSE EncodeAbiExecution(Head(execs)) \o EncodeAbiElements(Tail(execs))

\* encodeAbiParameters([(address target, uint256 value, bytes callData)[]], [executions])
EncodeAbiExecutions(execs) ==
    ToBytes(32, 32) \o ToBytes(Len(execs), 32) \o EncodeAbiOffsets(execs, 32 * Len(execs))
        \o EncodeAbiElements(execs)

\* a plausible slip: a field left out of the packed values
EncodePackedWithoutNonce(chainId, account, token, allowedPercentageBps, nonce, executionBatch) ==
    ToBytes(chainId, 32) \o ToBytes(account, 20) \o ToBytes(token, 20)
        \o ToBytes(allowedPercentageBps, 32) \o executionBatch

\* a plausible slip: encodeAbiParameters in place of encodePacked
EncodePackedAsAbi(chainId, account, token, allowedPercentageBps, nonce, executionBatch) ==
    ToBytes(chainId, 32) \o ToBytes(account, 32) \o ToBytes(token, 32)
        \o ToBytes(allowedPercentageBps, 32) \o ToBytes(nonce, 32) \o ToBytes(192, 32)
        \o ToBytes(Len(executionBatch), 32) \o PadRight(executionBatch)

\* encodePacked(['uint256', 'address', 'address', 'uint256', 'uint256', 'bytes'], [...])
EncodePacked(chainId, account, token, allowedPercentageBps, nonce, executionBatch) ==
    ToBytes(chainId, 32) \o ToBytes(account, 20) \o ToBytes(token, 20)
        \o ToBytes(allowedPercentageBps, 32) \o ToBytes(nonce, 32) \o executionBatch

\* the packed pre-image of an input [chainId, account, token, bps, nonce, executions]
PackInput(in) ==
    EncodePacked(in.chainId, in.account, in.token, in.bps, in.nonce,
                 EncodeAbiExecutions(in.executions))

MaxNonce == 1

\* batches of up to two executions: call data that differ in a trailing zero byte, and the
\* same two executions in both orders
ExecutionsSet ==
    LET e1 == [target |-> 4, value |-> 0, callData |-> <<1, 2>>]
        e2 == [target |-> 4, value |-> 0, callData |-> <<1, 2, 0>>]
        e3 == [target |-> 5, value |-> 0, callData |-> <<>>]
    IN  {<<>>, <<e1>>, <<e2>>, <<e1, e3>>, <<e3, e1>>}

PackerInputs ==
    [chainId : {ChainId, 8453}, account : {1, 2}, token : {3, 259},
     bps : {TOTAL_PERCENTAGE, 5000}, nonce : 0..MaxNonce, executions : ExecutionsSet]

\* the fields in which two inputs differ
Differing(a, b) == {f \in DOMAIN a : a[f] # b[f]}

PackerInit ==
    /\ impl \in Impls
    /\ clock = 0
    /\ chain = ChainInit
    /\ ledger = LedgerMissing
    /\ run = [r \in Runs |-> RunInit]
    /\ builder = BuilderIdle
    /\ \E a \in PackerInputs, b \in PackerInputs :
          /\ Cardinality(Differing(a, b)) <= 1
          /\ packer = [pc |-> "start", a |-> a, b |-> b, preimages |-> <<>>, digests |-> <<>>]

Pack ==
    /\ packer.pc = "start"
    /\ packer' = [packer EXCEPT !.pc = "packed",
                                !.preimages = <<PackInput(packer.a), PackInput(packer.b)>>]
    /\ UNCHANGED <<impl, clock, chain, ledger, run, builder>>

Hash ==
    /\ packer.pc = "packed"
    /\ packer' = [packer EXCEPT !.pc = "hashed",
                                !.digests = <<Keccak256(packer.preimages[1]),
                                              Keccak256(packer.preimages[2])>>]
    /\ UNCHANGED <<impl, clock, chain, ledger, run, builder>>

PackerNext == Pack \/ Hash

PackSpec == PackerInit /\ [][PackerNext]_vars

(***************************************************************************)
(* C15.  The digest is a function of (chain id, account, token, cap,       *)
(* nonce, batch): equal inputs give equal digests, and inputs that differ  *)
(* in one field, in a byte of the batch or in the order of the batch's     *)
(* sub-calls give different digests.                                       *)
(***************************************************************************)
C15_DigestDeterministicAndSensitive ==
    packer.pc = "hashed" =>
        /\ (packer.a = packer.b) <=> (packer.digests[1] = packer.digests[2])
        /\ (packer.a.executions # packer.b.executions)
              => EncodeAbiExecutions(packer.a.executions)
                    # EncodeAbiExecutions(packer.b.executions)

\* two inputs whose batches hold the same sub-calls in a different order, hashed to
\* different digests
C15_Witness ==
    /\ packer.pc = "hashed"
    /\ Differing(packer.a, packer.b) = {"executions"}
    /\ Len(packer.a.executions) = 2
    /\ packer.b.executions = <<packer.a.executions[2], packer.a.executions[1]>>
    /\ packer.digests[1] # packer.digests[2]

(***************************************************************************)
(* C16.  The pre-image is, in this order, the chain id as 32 bytes, the    *)
(* account as 20, the token as 20, the cap as 32, the nonce as 32 and then *)
(* the batch bytes as they are, with no length in front: 136 bytes plus    *)
(* the batch, in each of the three implementations.                        *)
(***************************************************************************)
\* the number that big-endian bytes spell
FromBytes(bytes) ==
    LET byte(k) == IF k <= Len(bytes) THEN bytes[Len(bytes) + 1 - k] ELSE 0
    IN  IF \E k \in 1..(Len(bytes) - 4) : bytes[k] # 0 THEN -1
        ELSE byte(1) + 256 * byte(2) + 65536 * byte(3) + 16777216 * byte(4)

HasPackedLayout(preimage, in) ==
    LET batch == EncodeAbiExecutions(in.executions)
    IN  /\ Len(preimage) = 136 + Len(batch)
        /\ FromBytes(SubSeq(preimage, 1, 32)) = in.chainId
        /\ FromBytes(SubSeq(preimage, 33, 52)) = in.account
        /\ FromBytes(SubSeq(preimage, 53, 72)) = in.token
        /\ FromBytes(SubSeq(preimage, 73, 104)) = in.bps
        /\ FromBytes(SubSeq(preimage, 105, 136)) = in.nonce
        /\ SubSeq(preimage, 137, Len(preimage)) = batch

C16_PackedLayout ==
    packer.pc # "start" =>
        /\ HasPackedLayout(packer.preimages[1], packer.a)
        /\ HasPackedLayout(packer.preimages[2], packer.b)

\* a packed pre-image that carries a batch of two sub-calls
C16_Witness ==
    /\ packer.pc = "packed"
    /\ Len(packer.a.executions) = 2
    /\ packer.a.nonce > 0
    /\ Len(packer.preimages[1]) = 136 + Len(EncodeAbiExecutions(packer.a.executions))
    /\ Len(packer.preimages[1]) > 136 + 64

(***************************************************************************)
(* C17.  In every run the (initData, salt) pair in the deploy sub-call is  *)
(* the pair of the address query, so the address that holds code after a   *)
(* successful atomic execute is the pre-computed address that the run's    *)
(* mint funded and that its attested execution names.                      *)
(***************************************************************************)
C17_DeployedAddressIsPrecomputed ==
    /\ \A r \in Runs :
          Issued(r, "aggregate3")
             => LET createAccount == run[r].submitted[1].callData[3]
                IN  /\ createAccount[2] = run[r].initData
                    /\ createAccount[3] = run[r].salt
                    /\ ComputeAccountAddress(createAccount[2], createAccount[3])
                          = run[r].accountAddress
                    /\ run[r].submitted[2].callData[2] = run[r].accountAddress
    /\ \A a \in chain.code :
          \E r \in Runs : /\ Issued(r, "mint")
                          /\ run[r].receipt.status = "success"
                          /\ run[r].accountAddress = a

\* a run deployed its account in a later second than the one its salt was taken in
C17_Witness ==
    \E r \in Runs :
        /\ run[r].receipt.status = "success"
        /\ run[r].salt = Salt(ImplOf(r), 0)
        /\ run[r].nonce = 1
        /\ run[r].accountAddress \in chain.code
        /\ chain.code = {ComputeAccountAddress(run[r].initData, run[r].salt)}

(***************************************************************************)
(* C18.  A run whose polls all observe a zero balance aborts and submits   *)
(* no atomic execute, and no run builds, signs or submits a batch computed *)
(* from an observed balance of zero.                                       *)
(***************************************************************************)
C18_NoBatchFromZeroBalance ==
    \A r \in Runs :
        /\ run[r].error = "balance" => (run[r].pc = "exit1" /\ ~Issued(r, "aggregate3"))
        /\ Issued(r, "signMessage") => run[r].accountBalance # BigZero

(***************************************************************************)
(* C19.  The balance-check loop terminates: it reads the balance at most   *)
(* 10 times, leaves at the first read that is not zero, and after a 10th   *)
(* zero read it ends.                                                      *)
(***************************************************************************)
C19_PollingTerminates ==
    /\ [][\A r \in Runs :
             (run[r].pc = "poll" /\ (run'[r].pc # "poll" \/ run'[r].polls # run[r].polls))
                => /\ run[r].polls <= 9
                   /\ run[r].balance = BigZero
                   /\ run'[r].balance # BigZero => run'[r].pc = "deploy"
                   /\ (run'[r].balance = BigZero /\ run[r].polls < 9)
                         => (run'[r].pc = "poll" /\ run'[r].polls = run[r].polls + 1)
                   /\ (run'[r].balance = BigZero /\ run[r].polls = 9)
                         => run'[r].pc = "exit1"]_vars
    /\ \A r \in Runs : (run[r].pc = "poll") ~> (run[r].pc # "poll")

\* one run left the loop on a read that was not zero, another ended after ten zero reads
C19_Witness ==
    \E r \in Runs, q \in Runs :
        /\ run[r].pc = "deploy"
        /\ run[r].balance # BigZero
        /\ run[q].pc = "exit1"
        /\ run[q].error = "balance"
        /\ run[q].balance = BigZero

(***************************************************************************)
(* C20.  An error in a step aborts the run: a run whose transaction        *)
(* reverted or whose step threw executes no later step and ends in         *)
(* process.exit(1), where it stays; only a zero balance read inside the    *)
(* balance-check loop is absorbed.                                         *)
(***************************************************************************)
C20_ErrorsAbort ==
    [][\A r \in Runs :
          /\ (run[r].pc = "submit" /\ run'[r].receipt.status = "reverted")
                => run'[r].pc = "exit1"
          /\ run'[r].error # run[r].error => run'[r].pc = "exit1"
          /\ run[r].pc = "exit1" => (run'[r].pc = "exit1" /\ run'[r].ops = run[r].ops)]_vars

(***************************************************************************)
(* C21.  A run without PRIVATE_KEY fails before any external operation:    *)
(* it ends in process.exit(1) straight from the start, with no address     *)
(* queried, no code checked, nothing minted, submitted or written, and the *)
(* chain and the ledger as they were.                                      *)
(***************************************************************************)
C21_MissingKeyFailsFirst ==
    /\ [](\A r \in Runs :
             run[r].error = "PRIVATE_KEY"
                => /\ run[r].pc = "exit1"
                   /\ run[r].ops = <<>>
                   /\ run[r].accountAddress = NoAddress
                   /\ run[r].salt = <<>>
                   /\ ~run[r].alreadyDeployed
                   /\ run[r].receipt = NoReceipt)
    /\ [][\A r \in Runs :
             (run[r].error # "PRIVATE_KEY" /\ run'[r].error = "PRIVATE_KEY")
                => (run[r].pc = "start" /\ chain' = chain /\ ledger' = ledger)]_vars

\* a run has failed on the missing key while the run before it went on
C21_Witness ==
    /\ run[2].error = "PRIVATE_KEY"
    /\ run[2].pc = "exit1"
    /\ Issued(1, "mint")

(***************************************************************************)
(* C22.  After a mint or an atomic multicall the flow goes on (to the next *)
(* step, or to its success or failure) only once the transaction has       *)
(* reached the minimum confirmation depth.                                 *)
(***************************************************************************)
\* the depth that protects against a reorganization: the one the code names
MinConfirmations == 2

C22_WaitsForConfirmationDepth ==
    \A r \in Runs :
       (Issued(r, "mint") \/ Issued(r, "aggregate3"))
          => run[r].confirmations >= MinConfirmations

(***************************************************************************)
(* The deployment ledger                                                   *)
(***************************************************************************)
\* the run's step is the write of deployments.json
Upserts(r) == run[r].pc = "ledger" /\ run'[r].pc = "exit0"

\* the store holds a record of the account
Recorded(account) == \E entry \in ledger.bondModule : entry.demoAccount = account

(***************************************************************************)
(* C23.  The ledger is keyed by account address: after upserts for two     *)
(* different accounts, in either order, the store holds the record of      *)
(* both.                                                                   *)
(***************************************************************************)
C23_UpsertsDoNotConflict ==
    \A r \in Runs : Issued(r, "writeFile") => Recorded(run[r].accountAddress)

(***************************************************************************)
(* C25.  An upsert never deletes: every key and every record of another    *)
(* account that was in the store before the upsert is in it, unchanged,    *)
(* afterwards.                                                             *)
(***************************************************************************)
C25_UpsertNeverDeletes ==
    [][\A r \in Runs :
          Upserts(r)
             => /\ ledger.others \subseteq ledger'.others
                /\ \A entry \in ledger.bondModule :
                      entry.demoAccount # run[r].accountAddress
                         => entry \in ledger'.bondModule]_vars

(***************************************************************************)
(* C26.  Recording an outcome is idempotent: an upsert for an account      *)
(* whose record of the same day is already in the store leaves the store   *)
(* as it was.                                                              *)
(***************************************************************************)
\* both seconds are of the same calendar day
SameDay(t1, t2) == t1 \div SecondsPerDay = t2 \div SecondsPerDay

C26_UpsertIdempotent ==
    [][\A r \in Runs :
          (Upserts(r) /\ Recorded(run[r].accountAddress) /\ SameDay(0, clock))
             => ledger' = ledger]_vars

\* both runs have recorded the same account, the second one a second later
C26_Witness ==
    /\ \A r \in Runs : Issued(r, "writeFile")
    /\ run[1].accountAddress = run[2].accountAddress
    /\ Recorded(run[1].accountAddress)
    /\ clock = 1

(***************************************************************************)
(* C24.  A run that ends in success or in the already-deployed             *)
(* short-circuit has upserted a deployment record exactly once, a run that *)
(* failed has upserted none, and an upsert comes only after the outcome of *)
(* the atomic execute is known.                                            *)
(***************************************************************************)
\* how many times the run wrote deployments.json
UpsertCount(r) == Cardinality({i \in DOMAIN run[r].ops : run[r].ops[i] = "writeFile"})

C24_UpsertOncePerSuccess ==
    \A r \in Runs :
       /\ run[r].pc = "exit0" => UpsertCount(r) = 1
       /\ run[r].pc = "exit1" => UpsertCount(r) = 0
       /\ UpsertCount(r) > 0 => (run[r].alreadyDeployed \/ run[r].receipt.status # "none")

(***************************************************************************)
(* C27.  Within one run at most one external operation is in flight: a     *)
(* step issues at most one operation, and it does so only when the         *)
(* responses of the run's earlier transactions have arrived (the mint's    *)
(* receipt was awaited, the multicall's receipt is there).                 *)
(***************************************************************************)
C27_OneOperationInFlight ==
    [][\A r \in Runs :
          /\ Len(run'[r].ops) <= Len(run[r].ops) + 1
          /\ Len(run'[r].ops) > Len(run[r].ops)
                => /\ Issued(r, "mint") => run[r].confirmations > 0
                   /\ Issued(r, "aggregate3") => run[r].receipt.status # "none"
                   /\ run[r].pc \in {"mint", "deploy", "submit", "ledger"}]_vars

\* a run has gone through all its operations, one after the other
C27_Witness ==
    \E r \in Runs :
       /\ run[r].ops = <<"mint", "signMessage", "aggregate3", "writeFile">>
       /\ run[r].pc = "exit0"

(***************************************************************************)
(* C28.  The shares of the allocation plan sum to exactly 10000 basis      *)
(* points, and the cap that is signed and submitted is the total the plan  *)
(* was built against, hence at least the basis points the plan uses.       *)
(***************************************************************************)
\* the basis points the plan hands out
PlanTotal == Plan[1] + Plan[2] + Plan[3]

C28_PlanWithinCap ==
    /\ PlanTotal = 10000
    /\ \A r \in Runs :
          Issued(r, "aggregate3")
             => LET sent == run[r].submitted[2].callData
                    signed == AttestedFields(ImplOf(r), sent[7])
                IN  /\ signed[4] = TOTAL_PERCENTAGE
                    /\ sent[5] = signed[4]
                    /\ sent[5] >= PlanTotal

\* a run has submitted the batch sized from its minted balance
C28_Witness ==
    \E r \in Runs :
       /\ Issued(r, "aggregate3")
       /\ run[r].accountBalance = INITIAL_TOKEN_BALANCE
       /\ run[r].receipt.status = "success"

(***************************************************************************)
(* C29.  The verifier rejects an attested batch whose nonce was already    *)
(* used for the same (account, token), and one that hands out more than    *)
(* the authorized cap; hence an atomic multicall that already succeeded,   *)
(* submitted again unchanged, fails as a whole and moves no tokens.        *)
(***************************************************************************)
\* the run's step is the submission of its multicall
Submits(r) == run[r].pc = "submit" /\ run'[r].pc # "submit"

\* the submission was reverted and left the chain as it was
Rejected(r) == run'[r].receipt.status = "reverted" /\ chain' = chain

\* the batch hands out more than bps of the account's balance
ExceedsCap(c, account, executionBatch, bps) ==
    ~BigLeq(BatchTotal(DecodeBatch(executionBatch)),
            BigDiv(BigMul(c.bal[account], bps), TOTAL_PERCENTAGE))

C29_ReplayAndOverCapRejected ==
    [][\A r \in Runs :
          Submits(r)
             => LET sent == run'[r].submitted[2].callData
                IN  /\ <<sent[2], sent[4], sent[6]>> \in chain.usedNonces => Rejected(r)
                    /\ ExceedsCap(chain, sent[2], sent[3], sent[5]) => Rejected(r)
                    /\ (\E q \in Runs \ {r} :
                           /\ run[q].receipt.status = "success"
                           /\ run[q].submitted = run'[r].submitted) => Rejected(r)]_vars

\* a multicall that had succeeded was submitted again, unchanged, by the other run
C29_Witness ==
    \E q, r \in Runs :
       /\ q # r
       /\ run[q].receipt.status = "success"
       /\ run[r].receipt.status = "reverted"
       /\ run[r].receipt.results = <<TRUE, FALSE>>
       /\ run[r].submitted = run[q].submitted

(***************************************************************************)
(* C30.  The three implementations are the same protocol: from the same    *)
(* chain state and the same inputs they issue the same operations and end  *)
(* in the same outcome.  Two consequences are stated: a run that went      *)
(* through the whole flow has issued mint, signature, multicall and ledger *)
(* upsert, whichever script it is; and the multicall a run is about to     *)
(* submit has the same fate whichever script had signed it.                *)
(***************************************************************************)
\* the calls of run r as script i would have signed them
CallsSignedBy(i, r) ==
    calls(EncodeCreateAccount(run[r].initData, run[r].salt),
          EncodeExecuteBatch(run[r].accountAddress, RunExecutionBatch(r), MockToken,
                             TOTAL_PERCENTAGE, run[r].nonce,
                             Signature(i, Deployer, RunAttestationHash(r))))

\* whether the chain, left alone, reverts the calls
Reverts(callList) == Aggregate3(chain, callList, [forced |-> 0, redeploy |-> "reverts"]).reverted

C30_SameProtocol ==
    \A r \in Runs :
       /\ (run[r].pc = "exit0" /\ ~run[r].alreadyDeployed)
             => run[r].ops = <<"mint", "signMessage", "aggregate3", "writeFile">>
       /\ run[r].pc = "submit"
             => \A i, j \in Impls : Reverts(CallsSignedBy(i, r)) = Reverts(CallsSignedBy(j, r))

(***************************************************************************)
(* C31.  Every run uses a salt that differs from the salt of every earlier *)
(* run of the same owner, so distinct runs pre-compute distinct account    *)
(* addresses, also when they start within the same clock second.           *)
(***************************************************************************)
C31_SaltsDistinct ==
    \A q, r \in Runs :
       (q # r /\ run[q].salt # <<>> /\ run[r].salt # <<>>)
          => /\ run[q].salt # run[r].salt
             /\ run[q].accountAddress # run[r].accountAddress

(***************************************************************************)
(* C32.  The steps of a run happen in a fixed order: the address is        *)
(* pre-computed before anything else; the mint is issued only after the    *)
(* code check found no code; the balance read that sizes the batch, the    *)
(* signature and the submission come only after the mint is confirmed; and *)
(* the digest is signed before the multicall is submitted.                 *)
(***************************************************************************)
\* the operations of the deployment path, in the order of main()
DeploymentPath == <<"mint", "signMessage", "aggregate3", "writeFile">>

\* the sequence is an initial part of the other
IsPrefix(seq, of) == Len(seq) <= Len(of) /\ \A k \in DOMAIN seq : seq[k] = of[k]

C32_FixedOrder ==
    /\ [](\A r \in Runs :
             /\ (run[r].pc # "start"
                    /\ run[r].error \notin {"PRIVATE_KEY", "computeAccountAddress"})
                   => run[r].accountAddress # NoAddress
             /\ IF run[r].alreadyDeployed THEN IsPrefix(run[r].ops, <<"writeFile">>)
                ELSE IsPrefix(run[r].ops, DeploymentPath)
             /\ Issued(r, "signMessage") => run[r].confirmations > 0)
    /\ [][\A r \in Runs :
             /\ Len(run'[r].ops) > Len(run[r].ops) => run[r].accountAddress # NoAddress
             /\ run'[r].alreadyDeployed # run[r].alreadyDeployed => run[r].ops = <<>>
             /\ run'[r].accountBalance # run[r].accountBalance
                   => (Issued(r, "mint") /\ run[r].confirmations > 0
                          /\ ~Issued(r, "signMessage"))]_vars

\* one run went down the deployment path as far as the confirmed multicall, the other
\* found the code and took the short-circuit
C32_Witness ==
    \E q, r \in Runs :
       /\ Len(run[q].ops) >= 3
       /\ run[q].receipt.status = "success"
       /\ run[r].alreadyDeployed
       /\ run[r].pc = "exit0"

(***************************************************************************)
(* C33.  A run issues at most one mint and at most one atomic multicall,   *)
(* and queries the address once: nothing but the balance poll is repeated  *)
(* inside a run.                                                           *)
(***************************************************************************)
\* how many times the run issued the operation
OpCount(r, op) == Cardinality({k \in DOMAIN run[r].ops : run[r].ops[k] = op})

C33_NoRetry ==
    /\ [](\A r \in Runs :
             /\ OpCount(r, "mint") <= 1
             /\ OpCount(r, "signMessage") <= 1
             /\ OpCount(r, "aggregate3") <= 1)
    /\ [][\A r \in Runs :
             /\ run[r].pc # "start"
                   => /\ run'[r].accountAddress = run[r].accountAddress
                      /\ run'[r].salt = run[r].salt
             /\ run[r].pc \in {"exit0", "exit1"} => run'[r].pc = run[r].pc
             /\ run'[r].pc = run[r].pc
                   => (run[r].pc = "poll" \/ run'[r].ops = run[r].ops)]_vars

\* a run is repeating the balance read after its one mint
C33_Witness ==
    \E r \in Runs :
       /\ run[r].pc = "poll"
       /\ run[r].polls >= 2
       /\ run[r].ops = <<"mint">>

C35_FailureMeansNoEffect ==
    \A r \in Runs :
       run[r].pc = "exit1"
          => ~(/\ run[r].receipt.status = "success"
               /\ Lifecycle(chain, run[r].accountAddress) = "DeployedDistributed"
               /\ Distributed(chain, run[r].accountAddress))

(***************************************************************************)
(* C36.  No mint is issued to an address that has code at the moment the   *)
(* mint is submitted: pre-funding only targets a not-yet-deployed account, *)
(* also when two runs that pre-computed the same address are interleaved.  *)
(***************************************************************************)
\* the run's step is the submission of its mint
Mints(r) == ~Issued(r, "mint") /\ run'[r].ops = run[r].ops \o <<"mint">>

C36_MintOnlyBeforeDeployment ==
    [][\A r \in Runs : Mints(r) => run[r].accountAddress \notin chain.code]_vars

(***************************************************************************)
(* C37.  The total amount the batch deposits never exceeds the allowance   *)
(* cap installed for the token when the account is initialised             *)
(* (ALLOWANCE_CAP), whatever balance the account holds when the batch is   *)
(* sized.                                                                  *)
(***************************************************************************)
\* what the run's batch deposits in all
RunDepositTotal(r) == BigAdd(BigAdd(RunAmounts(r)[1], RunAmounts(r)[2]), RunAmounts(r)[3])

C37_DepositsWithinAllowanceCap ==
    \A r \in Runs :
       Issued(r, "signMessage") => BigLeq(RunDepositTotal(r), ALLOWANCE_CAP)

====
